---------------------------- MODULE Spec2Model ----------------------------
(***************************************************************************)
(* A model of the serpens runtime value layer (src/runtime/value.h,        *)
(* src/runtime/value.cc): the tagged Value, its factories, the arithmetic  *)
(* dispatch add/sub/mul/div, the iterator protocol, print, the Nothing     *)
(* singleton and the destructor run by the shared_ptr (Ref) that holds a   *)
(* Value.                                                                  *)
(*                                                                         *)
(* Integer widths are scaled down so that TLC can enumerate them: the      *)
(* 64-bit i64 is the interval I64Min..I64Max and the 32-bit int is         *)
(* IntMin..IntMax, with IntMax < I64Max as in the program.  Signed         *)
(* overflow is undefined behaviour in C++; every place where the code can  *)
(* overflow yields the set of outcomes a build can produce.                *)
(***************************************************************************)
EXTENDS Integers, Sequences, FiniteSets, TLC

VARIABLES
    heap,      \* live Value objects: id -> the Value (kind tag and active payload)
    refs,      \* use_count of the Ref<Value> control block of each live Value
    strs,      \* live std::string objects allocated with new: id -> contents
    iters,     \* live Iterator objects allocated with new: id -> the object
    frees,     \* per payload object ever allocated: how many times it was deleted
    nextId,    \* allocation counter (addresses are never reused)
    out,       \* what was written to std::cout
    err,       \* what was written to stderr
    status,    \* "running", "exited" (exit), "trapped" (fatal fault), "diverged"
    exitCode,  \* the argument of exit(), 0 while the process has not exited
    call,      \* the last operation the evaluator invoked, with what it returned
    observed,  \* per Iterator-kind Value: the caller's last has_next() observation
    yielded,   \* per Iterator-kind Value: the payloads next() returned so far
    source     \* per Iterator-kind Value: what iter was called on (history)

vars == <<heap, refs, strs, iters, frees, nextId, out, err, status, exitCode,
          call, observed, yielded, source>>

---------------------------------------------------------------------------
(* Bounds of the model *)

\* scaled INT64_MAX: i64 is I64Min..I64Max
I64Max == 12
\* scaled INT_MAX: int is IntMin..IntMax
IntMax == 2
\* longest string an iterated or printed String Value holds
MaxLen == 4
\* longest string operand of an arithmetic operation
ArithStrLen == 2
\* most holders (Ref copies) of one Value at a time
MaxHolders == 2
\* most Value objects alive at a time
MaxLive == 4
\* most arguments of one print call
MaxArgs == 2

I64Min == -I64Max - 1
IntMin == -IntMax - 1
I64 == I64Min..I64Max

\* two's complement wrap-around of x into lo..hi
Wrap(x, lo, hi) == lo + ((x - lo) % (hi - lo + 1))

Alphabet == {"a", "b"}

RECURSIVE StringsUpTo(_)
StringsUpTo(n) ==
    IF n = 0 THEN {""}
    ELSE LET shorter == StringsUpTo(n - 1)
         IN  shorter \cup {s \o c : s \in shorter, c \in Alphabet}

\* source location tags the evaluator passes
Locs == {"main.sp:1", "lib.sp:7"}

\* the Ref a call that did not return leaves: none
NoRet == 0 - 1

---------------------------------------------------------------------------
(* f64 payloads.  A float is the rational n/d in lowest terms with d > 0;  *)
(* d = 0 stands for the IEEE specials: n = 1 is +inf, n = -1 is -inf and   *)
(* n = 0 is NaN.  The finite operands of the model are dyadic and small,   *)
(* so +, - and * are exact as in IEEE-754; a quotient stands for the       *)
(* double nearest to it.                                                   *)

Abs(x) == IF x < 0 THEN -x ELSE x

RECURSIVE GCD(_, _)
GCD(a, b) == IF b = 0 THEN a ELSE GCD(b, a % b)

Float(n, d) ==
    IF d = 0 THEN [n |-> IF n > 0 THEN 1 ELSE IF n < 0 THEN -1 ELSE 0, d |-> 0]
    ELSE LET g == GCD(Abs(n), Abs(d))
             s == IF d < 0 THEN -1 ELSE 1
         IN  [n |-> (s * n) \div g, d |-> (s * d) \div g]

\* (f64) i : the promotion of an integer operand
IntToFloat(i) == Float(i, 1)

FAdd(x, y) == Float(x.n * y.d + y.n * x.d, x.d * y.d)
FSub(x, y) == Float(x.n * y.d - y.n * x.d, x.d * y.d)
FMul(x, y) == Float(x.n * y.n, x.d * y.d)
\* x / y; a zero divisor gives +-inf, and 0/0 gives NaN
FDiv(x, y) == Float(x.n * y.d, x.d * y.n)

---------------------------------------------------------------------------
(* The store: everything the factories allocate in.  An operation takes    *)
(* the store it runs in and gives the store it leaves.                     *)

Store == [heap |-> heap, refs |-> refs, strs |-> strs, iters |-> iters,
          frees |-> frees, nextId |-> nextId]

EmptyStore == [heap |-> <<>>, refs |-> <<>>, strs |-> <<>>, iters |-> <<>>,
               frees |-> <<>>, nextId |-> 0]

\* make<Value>(kind) followed by the assignment of the payload: a new Value
\* object held by the one Ref that is returned
make_Value(S, v) ==
    LET id == S.nextId
    IN  [store |-> [S EXCEPT !.heap = (id :> v) @@ S.heap,
                             !.refs = (id :> 1) @@ S.refs,
                             !.nextId = id + 1],
         ret |-> id]

from_int(S, value) == make_Value(S, [kind |-> "Integer", as_int |-> value])

from_float(S, value) == make_Value(S, [kind |-> "Float", as_float |-> value])

\* val->as_string = new string(value)
from_string(S, value) ==
    LET r == make_Value(S, [kind |-> "String", as_string |-> S.nextId + 1])
        buf == r.store.nextId
    IN  [store |-> [r.store EXCEPT !.strs = (buf :> value) @@ r.store.strs,
                                   !.frees = (buf :> 0) @@ r.store.frees,
                                   !.nextId = buf + 1],
         ret |-> r.ret]

from_iterator(S, it) == make_Value(S, [kind |-> "Iterator", as_iter |-> it])

from_range(S, start, end) ==
    make_Value(S, [kind |-> "Range", as_range |-> [start |-> start, end |-> end]])

from_builtin(S, name, func) ==
    make_Value(S, [kind |-> "BuiltInFunction",
                   as_builtin |-> [name |-> name, func |-> func]])

\* the GlobalConstructor: Nothing = make<Value>(ValueKind::Nothing)
GlobalConstructor == make_Value(EmptyStore, [kind |-> "Nothing"])

\* the global Ref<Value> Nothing
Nothing == GlobalConstructor.ret

\* new StringIterator(str): str(*str) copies the contents, index(0)
new_StringIterator(S, str) ==
    LET id == S.nextId
    IN  [store |-> [S EXCEPT !.iters = (id :> [type |-> "StringIterator",
                                               str |-> S.strs[str],
                                               index |-> 0]) @@ S.iters,
                             !.frees = (id :> 0) @@ S.frees,
                             !.nextId = id + 1],
         ret |-> id]

\* new RangeIterator(start, end): current(start)
new_RangeIterator(S, start, end) ==
    LET id == S.nextId
    IN  [store |-> [S EXCEPT !.iters = (id :> [type |-> "RangeIterator",
                                               start |-> start,
                                               end |-> end,
                                               current |-> start]) @@ S.iters,
                             !.frees = (id :> 0) @@ S.frees,
                             !.nextId = id + 1],
         ret |-> id]

---------------------------------------------------------------------------
(* Outcomes of a call: it returns a Ref, or the process ends in it.        *)

Returned(r) ==
    [status |-> "running", store |-> r.store, ret |-> r.ret, out |-> "",
     err |-> "", exitCode |-> 0]

\* fprintf(stderr, "%s: Error: ", loc); vfprintf(fmt); "\n"; exit(1)
error(S, loc, msg) ==
    [status |-> "exited", store |-> S, ret |-> NoRet, out |-> "",
     err |-> loc \o ": Error: " \o msg \o "\n", exitCode |-> 1]

\* a fatal fault raised by the hardware or a trapping build: no diagnostic
Trapped(S) ==
    [status |-> "trapped", store |-> S, ret |-> NoRet, out |-> "", err |-> "",
     exitCode |-> 0]

\* a loop that never exits normally
Diverged(S) ==
    [status |-> "diverged", store |-> S, ret |-> NoRet, out |-> "", err |-> "",
     exitCode |-> 0]

\* from_int of an i64 expression whose mathematical value is x: signed
\* overflow is undefined, a build wraps or traps
IntResult(S, x) ==
    IF x \in I64 THEN {Returned(from_int(S, x))}
    ELSE {Returned(from_int(S, Wrap(x, I64Min, I64Max))), Trapped(S)}

\* mutant of TruncDiv: the quotient rounded toward minus infinity
FloorDiv(a, b) == a \div b

\* a / b on i64, b # 0: the quotient truncated toward zero
TruncDiv(a, b) ==
    LET q == Abs(a) \div Abs(b)
    IN  IF (a < 0) = (b < 0) THEN q ELSE -q

\* what a build whose integer division does not trap leaves for x / 0
DivByZeroResults == {0, -1}

\* this->as_int / other->as_int: division by zero is undefined, a build
\* traps or yields one of DivByZeroResults
IntDivResult(S, a, b) ==
    IF b = 0 THEN {Trapped(S)} \cup {Returned(from_int(S, q)) : q \in DivByZeroResults}
    ELSE IntResult(S, TruncDiv(a, b))

---------------------------------------------------------------------------
(* The arithmetic dispatcher.  Each operation gives the set of outcomes    *)
(* of one call this->op(other, loc).                                       *)

\* mutant of add: Integer + Float converts the Float operand to an integer
\* instead of promoting the Integer operand
add_demoting(S, self, other, loc) ==
    LET this == S.heap[self]
        that == S.heap[other]
    IN  IF this.kind = "Integer" /\ that.kind = "Integer"
            THEN IntResult(S, this.as_int + that.as_int)
        ELSE IF this.kind = "Integer" /\ that.kind = "Float"
            THEN IntResult(S, this.as_int + TruncDiv(that.as_float.n, that.as_float.d))
        ELSE IF this.kind = "Float" /\ that.kind = "Integer"
            THEN {Returned(from_float(S, FAdd(this.as_float, IntToFloat(that.as_int))))}
        ELSE IF this.kind = "Float" /\ that.kind = "Float"
            THEN {Returned(from_float(S, FAdd(this.as_float, that.as_float)))}
        ELSE IF this.kind = "String" /\ that.kind = "String"
            THEN {Returned(from_string(S, S.strs[this.as_string] \o S.strs[that.as_string]))}
        ELSE {error(S, loc, "invalid operands to binary +")}

add(S, self, other, loc) ==
    LET this == S.heap[self]
        that == S.heap[other]
    IN  IF this.kind = "Integer" /\ that.kind = "Integer"
            THEN IntResult(S, this.as_int + that.as_int)
        ELSE IF this.kind = "Integer" /\ that.kind = "Float"
            THEN {Returned(from_float(S, FAdd(IntToFloat(this.as_int), that.as_float)))}
        ELSE IF this.kind = "Float" /\ that.kind = "Integer"
            THEN {Returned(from_float(S, FAdd(this.as_float, IntToFloat(that.as_int))))}
        ELSE IF this.kind = "Float" /\ that.kind = "Float"
            THEN {Returned(from_float(S, FAdd(this.as_float, that.as_float)))}
        ELSE IF this.kind = "String" /\ that.kind = "String"
            THEN {Returned(from_string(S, S.strs[this.as_string] \o S.strs[that.as_string]))}
        ELSE {error(S, loc, "invalid operands to binary +")}

\* mutant of sub: the String + String row of add copied into sub
sub_with_strings(S, self, other, loc) ==
    LET this == S.heap[self]
        that == S.heap[other]
    IN  IF this.kind = "Integer" /\ that.kind = "Integer"
            THEN IntResult(S, this.as_int - that.as_int)
        ELSE IF this.kind = "Integer" /\ that.kind = "Float"
            THEN {Returned(from_float(S, FSub(IntToFloat(this.as_int), that.as_float)))}
        ELSE IF this.kind = "Float" /\ that.kind = "Integer"
            THEN {Returned(from_float(S, FSub(this.as_float, IntToFloat(that.as_int))))}
        ELSE IF this.kind = "Float" /\ that.kind = "Float"
            THEN {Returned(from_float(S, FSub(this.as_float, that.as_float)))}
        ELSE IF this.kind = "String" /\ that.kind = "String"
            THEN {Returned(from_string(S, S.strs[this.as_string] \o S.strs[that.as_string]))}
        ELSE {error(S, loc, "invalid operands to binary +")}

sub(S, self, other, loc) ==
    LET this == S.heap[self]
        that == S.heap[other]
    IN  IF this.kind = "Integer" /\ that.kind = "Integer"
            THEN IntResult(S, this.as_int - that.as_int)
        ELSE IF this.kind = "Integer" /\ that.kind = "Float"
            THEN {Returned(from_float(S, FSub(IntToFloat(this.as_int), that.as_float)))}
        ELSE IF this.kind = "Float" /\ that.kind = "Integer"
            THEN {Returned(from_float(S, FSub(this.as_float, IntToFloat(that.as_int))))}
        ELSE IF this.kind = "Float" /\ that.kind = "Float"
            THEN {Returned(from_float(S, FSub(this.as_float, that.as_float)))}
        ELSE {error(S, loc, "invalid operands to binary +")}

\* for (int i = 0; i < n; i++) result += s;  with i an int and n an i64.
\* The set of strings the loop can end with; the empty set when it cannot
\* end.  i++ at INT_MAX is undefined: a build that keeps i in 32 bits wraps
\* it to INT_MIN and the loop never ends, a build that widens i to the
\* width of n goes on counting.
RECURSIVE mul_loop(_, _, _, _, _)
mul_loop(s, n, i, result, wide) ==
    IF i < n
        THEN IF i + 1 > IntMax /\ ~wide THEN {}
             ELSE mul_loop(s, n, i + 1, result \o s, wide)
        ELSE {result}

mul_string(S, s, n) ==
    LET narrow == mul_loop(s, n, 0, "", FALSE)
        wide == mul_loop(s, n, 0, "", TRUE)
    IN  IF narrow # {} THEN {Returned(from_string(S, r)) : r \in narrow}
        ELSE {Diverged(S)} \cup {Returned(from_string(S, r)) : r \in wide}

mul(S, self, other, loc) ==
    LET this == S.heap[self]
        that == S.heap[other]
    IN  IF this.kind = "Integer" /\ that.kind = "Integer"
            THEN IntResult(S, this.as_int * that.as_int)
        ELSE IF this.kind = "Integer" /\ that.kind = "Float"
            THEN {Returned(from_float(S, FMul(IntToFloat(this.as_int), that.as_float)))}
        ELSE IF this.kind = "Float" /\ that.kind = "Integer"
            THEN {Returned(from_float(S, FMul(this.as_float, IntToFloat(that.as_int))))}
        ELSE IF this.kind = "Float" /\ that.kind = "Float"
            THEN {Returned(from_float(S, FMul(this.as_float, that.as_float)))}
        ELSE IF this.kind = "String" /\ that.kind = "Integer"
            THEN mul_string(S, S.strs[this.as_string], that.as_int)
        ELSE {error(S, loc, "invalid operands to binary +")}

div(S, self, other, loc) ==
    LET this == S.heap[self]
        that == S.heap[other]
    IN  IF this.kind = "Integer" /\ that.kind = "Integer"
            THEN IntDivResult(S, this.as_int, that.as_int)
        ELSE IF this.kind = "Integer" /\ that.kind = "Float"
            THEN {Returned(from_float(S, FDiv(IntToFloat(this.as_int), that.as_float)))}
        ELSE IF this.kind = "Float" /\ that.kind = "Integer"
            THEN {Returned(from_float(S, FDiv(this.as_float, IntToFloat(that.as_int))))}
        ELSE IF this.kind = "Float" /\ that.kind = "Float"
            THEN {Returned(from_float(S, FDiv(this.as_float, that.as_float)))}
        ELSE {error(S, loc, "invalid operands to binary +")}

---------------------------------------------------------------------------
(* The iterator protocol *)

\* an int converted to size_t for a comparison with str.size()
AsSizeT(i) == IF i >= 0 THEN i ELSE i + 2 * (I64Max + 1)

\* StringIterator::has_next: index < str.size()
StringIterator_has_next(o) == AsSizeT(o.index) < Len(o.str)

\* RangeIterator::has_next: current < end
RangeIterator_has_next(o) == o.current < o.end

\* the virtual call iter->has_next()
has_next(S, it) ==
    IF S.iters[it].type = "StringIterator"
        THEN StringIterator_has_next(S.iters[it])
        ELSE RangeIterator_has_next(S.iters[it])

\* str.substr(pos, 1) for pos <= str.size()
substr1(str, pos) == SubSeq(str, pos + 1, IF pos + 1 <= Len(str) THEN pos + 1 ELSE pos)

\* StringIterator::next: from_string(str.substr(index++, 1)).  index is an
\* int: index++ at INT_MAX is undefined, a build wraps or traps
StringIterator_next(S, it) ==
    LET o == S.iters[it]
        advanced == [S EXCEPT !.iters[it].index = Wrap(o.index + 1, IntMin, IntMax)]
        value == Returned(from_string(advanced, substr1(o.str, AsSizeT(o.index))))
    IN  IF o.index + 1 <= IntMax THEN {value} ELSE {value, Trapped(S)}

\* mutant of RangeIterator_next: the cursor is advanced before it is used
RangeIterator_next_preincrement(S, it) ==
    LET o == S.iters[it]
        advanced == [S EXCEPT !.iters[it].current = Wrap(o.current + 1, I64Min, I64Max)]
    IN  {Returned(from_int(advanced, Wrap(o.current + 1, I64Min, I64Max)))}

\* RangeIterator::next: from_int(current++)
RangeIterator_next(S, it) ==
    LET o == S.iters[it]
        advanced == [S EXCEPT !.iters[it].current = Wrap(o.current + 1, I64Min, I64Max)]
        value == Returned(from_int(advanced, o.current))
    IN  IF o.current + 1 <= I64Max THEN {value} ELSE {value, Trapped(S)}

\* the virtual call iter->next()
next(S, it) ==
    IF S.iters[it].type = "StringIterator"
        THEN StringIterator_next(S, it)
        ELSE RangeIterator_next(S, it)

\* mutant of iter: an Iterator-kind Value is taken to be iterable and a
\* second Value wrapping its iterator object is returned
iter_of_iterator(S, self, loc) ==
    LET this == S.heap[self]
    IN  IF this.kind = "String"
            THEN LET it == new_StringIterator(S, this.as_string)
                 IN  {Returned(from_iterator(it.store, it.ret))}
        ELSE IF this.kind = "Range"
            THEN LET it == new_RangeIterator(S, this.as_range.start, this.as_range.end)
                 IN  {Returned(from_iterator(it.store, it.ret))}
        ELSE IF this.kind = "Iterator"
            THEN {Returned(from_iterator(S, this.as_iter))}
        ELSE {error(S, loc, "value is not iterable")}

\* Value::iter
iter(S, self, loc) ==
    LET this == S.heap[self]
    IN  IF this.kind = "String"
            THEN LET it == new_StringIterator(S, this.as_string)
                 IN  {Returned(from_iterator(it.store, it.ret))}
        ELSE IF this.kind = "Range"
            THEN LET it == new_RangeIterator(S, this.as_range.start, this.as_range.end)
                 IN  {Returned(from_iterator(it.store, it.ret))}
        ELSE {error(S, loc, "value is not iterable")}

---------------------------------------------------------------------------
(* Ownership: a Value lives in the control block of its Ref (shared_ptr);  *)
(* the last Ref that goes away runs ~Value.                                *)

Without(f, x) == [y \in DOMAIN f \ {x} |-> f[y]]

\* delete of a std::string or of an Iterator (its virtual destructor)
delete(S, p) ==
    [S EXCEPT !.strs = IF p \in DOMAIN S.strs THEN Without(S.strs, p) ELSE S.strs,
              !.iters = IF p \in DOMAIN S.iters THEN Without(S.iters, p) ELSE S.iters,
              !.frees[p] = @ + 1]

\* mutant of Value_destructor: the Iterator case is missing
Value_destructor_without_iterator(S, id) ==
    LET v == S.heap[id]
    IN  IF v.kind = "String" THEN delete(S, v.as_string) ELSE S

\* Value::~Value
Value_destructor(S, id) ==
    LET v == S.heap[id]
    IN  IF v.kind = "String" THEN delete(S, v.as_string)
        ELSE IF v.kind = "Iterator" THEN delete(S, v.as_iter)
        ELSE S

\* a Ref<Value> is copied
Ref_copy(S, id) == [S EXCEPT !.refs[id] = @ + 1]

\* a Ref<Value> goes away: the last one destroys the Value and frees it
Ref_release(S, id) ==
    IF S.refs[id] > 1 THEN [S EXCEPT !.refs[id] = @ - 1]
    ELSE LET D == Value_destructor(S, id)
         IN  [D EXCEPT !.heap = Without(D.heap, id), !.refs = Without(D.refs, id)]

---------------------------------------------------------------------------
(* print *)

Digit(d) == SubSeq("0123456789", d + 1, d + 1)

RECURSIVE Digits(_)
Digits(n) == IF n < 10 THEN Digit(n) ELSE Digits(n \div 10) \o Digit(n % 10)

\* std::cout << i64: the decimal form
IntToString(i) == IF i < 0 THEN "-" \o Digits(-i) ELSE Digits(i)

RECURSIVE Pow10(_)
Pow10(k) == IF k = 0 THEN 1 ELSE 10 * Pow10(k - 1)

\* the decimal exponent of n/d > 0: the X with 10^X <= n/d < 10^(X+1)
RECURSIVE Exponent10(_, _, _)
Exponent10(n, d, x) ==
    IF n < d THEN Exponent10(10 * n, d, x - 1)
    ELSE IF n >= 10 * d THEN Exponent10(n, 10 * d, x + 1)
    ELSE x

\* n/d rounded to the nearest integer, halves to even
RoundDiv(n, d) ==
    LET q == n \div d
        r == n % d
    IN  IF 2 * r > d \/ (2 * r = d /\ q % 2 = 1) THEN q + 1 ELSE q

RECURSIVE StripZeros(_)
StripZeros(s) ==
    IF Len(s) > 0 /\ SubSeq(s, Len(s), Len(s)) = "0"
        THEN StripZeros(SubSeq(s, 1, Len(s) - 1))
        ELSE s

RECURSIVE Zeros(_)
Zeros(k) == IF k <= 0 THEN "" ELSE "0" \o Zeros(k - 1)

\* the six significant digits m (10^5 <= m < 10^6) at decimal exponent x
\* in the %g style: fixed notation for -4 <= x < 6, else d.ddddde+-xx, the
\* trailing zeros of the fraction dropped
FormatG(m, x) ==
    LET ds == Digits(m)
    IN  IF x < -4 \/ x >= 6
            THEN LET frac == StripZeros(SubSeq(ds, 2, 6))
                     ex == Digits(Abs(x))
                 IN  SubSeq(ds, 1, 1)
                     \o (IF frac = "" THEN "" ELSE "." \o frac)
                     \o "e" \o (IF x < 0 THEN "-" ELSE "+")
                     \o (IF Len(ex) < 2 THEN "0" \o ex ELSE ex)
        ELSE IF x >= 0
            THEN LET frac == StripZeros(SubSeq(ds, x + 2, 6))
                 IN  SubSeq(ds, 1, x + 1) \o (IF frac = "" THEN "" ELSE "." \o frac)
        ELSE "0." \o Zeros(-x - 1) \o StripZeros(ds)

\* std::cout << f64 with the stream's defaults: %g with precision 6
FloatToString(f) ==
    IF f.d = 0 THEN (IF f.n > 0 THEN "inf" ELSE IF f.n < 0 THEN "-inf" ELSE "nan")
    ELSE IF f.n = 0 THEN "0"
    ELSE LET n == Abs(f.n)
             x == Exponent10(n, f.d, 0)
             m == IF x <= 5 THEN RoundDiv(n * Pow10(5 - x), f.d)
                  ELSE RoundDiv(n, f.d * Pow10(x - 5))
             carried == m >= Pow10(6)
         IN  (IF f.n < 0 THEN "-" ELSE "")
             \o FormatG(IF carried THEN Pow10(5) ELSE m, IF carried THEN x + 1 ELSE x)

ValueKind == {"Nothing", "Integer", "String", "Float", "BuiltInFunction",
              "Iterator", "Range"}

\* what one iteration of print's loop writes for arg, before the space
Rendering(S, arg) ==
    LET v == S.heap[arg]
    IN  CASE v.kind = "Nothing" -> "nothing"
          [] v.kind = "Integer" -> IntToString(v.as_int)
          [] v.kind = "Float" -> FloatToString(v.as_float)
          [] v.kind = "String" -> S.strs[v.as_string]
          [] v.kind = "Range" ->
                IntToString(v.as_range.start) \o ".." \o IntToString(v.as_range.end)
          [] v.kind = "Iterator" -> "<iterator>"
          [] v.kind = "BuiltInFunction" ->
                "<builtin function: " \o v.as_builtin.name \o ">"

\* mutant of print_args: the space separates the arguments instead of
\* following each of them
RECURSIVE print_args_separated(_, _, _, _, _)
print_args_separated(S, args, i, written, loc) ==
    IF i > Len(args)
        THEN [Returned([store |-> S, ret |-> Nothing]) EXCEPT !.out = written \o "\n"]
    ELSE IF S.heap[args[i]].kind \notin ValueKind
        THEN [error(S, loc, "unsupported value kind in print") EXCEPT !.out = written]
    ELSE print_args_separated(S, args, i + 1,
              written \o (IF i > 1 THEN " " ELSE "") \o Rendering(S, args[i]), loc)

\* the loop of print from its i-th argument on, then std::endl and
\* return Nothing; written is what the call has put on std::cout so far
RECURSIVE print_args(_, _, _, _, _)
print_args(S, args, i, written, loc) ==
    IF i > Len(args)
        THEN [Returned([store |-> S, ret |-> Nothing]) EXCEPT !.out = written \o "\n"]
    ELSE IF S.heap[args[i]].kind \notin ValueKind
        THEN [error(S, loc, "unsupported value kind in print") EXCEPT !.out = written]
    ELSE print_args(S, args, i + 1, written \o Rendering(S, args[i]) \o " ", loc)

\* print(args, loc)
print(S, args, loc) == {print_args(S, args, 1, "", loc)}

---------------------------------------------------------------------------
(* The evaluator's side of a call *)

\* the state a call leaves: the store, the streams, and the call's record
Finish(o, c) ==
    /\ heap' = o.store.heap
    /\ refs' = o.store.refs
    /\ strs' = o.store.strs
    /\ iters' = o.store.iters
    /\ frees' = o.store.frees
    /\ nextId' = o.store.nextId
    /\ out' = out \o o.out
    /\ err' = err \o o.err
    /\ status' = o.status
    /\ exitCode' = o.exitCode
    /\ call' = [c EXCEPT !.ret = o.ret]

Idle == status = "running" /\ call.op = "none"

NoCall == [op |-> "none", ret |-> NoRet]

BinaryCall(op, self, other, loc) ==
    [op |-> op, self |-> self, other |-> other, loc |-> loc, ret |-> NoRet]

Add ==
    /\ Idle
    /\ \E self \in DOMAIN heap, other \in DOMAIN heap, loc \in Locs :
         \E o \in add(Store, self, other, loc) :
            Finish(o, BinaryCall("add", self, other, loc))
    /\ UNCHANGED <<observed, yielded, source>>

Sub ==
    /\ Idle
    /\ \E self \in DOMAIN heap, other \in DOMAIN heap, loc \in Locs :
         \E o \in sub(Store, self, other, loc) :
            Finish(o, BinaryCall("sub", self, other, loc))
    /\ UNCHANGED <<observed, yielded, source>>

Mul ==
    /\ Idle
    /\ \E self \in DOMAIN heap, other \in DOMAIN heap, loc \in Locs :
         \E o \in mul(Store, self, other, loc) :
            Finish(o, BinaryCall("mul", self, other, loc))
    /\ UNCHANGED <<observed, yielded, source>>

Div ==
    /\ Idle
    /\ \E self \in DOMAIN heap, other \in DOMAIN heap, loc \in Locs :
         \E o \in div(Store, self, other, loc) :
            Finish(o, BinaryCall("div", self, other, loc))
    /\ UNCHANGED <<observed, yielded, source>>

\* the Values the evaluator constructs as operands
FloatInputs == {Float(-3, 2), Float(0, 1), Float(3, 2), Float(3, 1)}

ArithInputs ==
    {[k |-> "int", i |-> i] : i \in I64}
    \cup {[k |-> "float", f |-> f] : f \in FloatInputs}
    \cup {[k |-> "string", s |-> s] : s \in StringsUpTo(ArithStrLen)}
    \cup {[k |-> "range", start |-> 0, end |-> 2],
          [k |-> "iterator", start |-> 0, end |-> 2],
          [k |-> "builtin"]}

Construct(S, d) ==
    CASE d.k = "int" -> from_int(S, d.i)
      [] d.k = "float" -> from_float(S, d.f)
      [] d.k = "string" -> from_string(S, d.s)
      [] d.k = "range" -> from_range(S, d.start, d.end)
      [] d.k = "iterator" ->
            LET it == new_RangeIterator(S, d.start, d.end)
            IN  from_iterator(it.store, it.ret)
      [] d.k = "builtin" -> from_builtin(S, "print", "print")

StartIn(S) ==
    /\ heap = S.heap
    /\ refs = S.refs
    /\ strs = S.strs
    /\ iters = S.iters
    /\ frees = S.frees
    /\ nextId = S.nextId
    /\ out = ""
    /\ err = ""
    /\ status = "running"
    /\ exitCode = 0
    /\ call = NoCall
    /\ observed = <<>>
    /\ yielded = <<>>
    /\ source = <<>>

\* the Nothing singleton and two operands
InitArith ==
    \E d1 \in ArithInputs, d2 \in ArithInputs :
        StartIn(Construct(Construct(GlobalConstructor.store, d1).store, d2).store)

NextArith == Add \/ Sub \/ Mul \/ Div

SpecArith == InitArith /\ [][NextArith]_vars

---------------------------------------------------------------------------
(* Properties of the arithmetic dispatcher, under SpecArith *)

ArithOps == {"add", "sub", "mul", "div"}

Numeric(k) == k \in {"Integer", "Float"}

\* the table of section 4.2 of the specification
InTable(op, k1, k2) ==
    \/ Numeric(k1) /\ Numeric(k2)
    \/ op = "add" /\ k1 = "String" /\ k2 = "String"
    \/ op = "mul" /\ k1 = "String" /\ k2 = "Integer"

AfterArith == call.op \in ArithOps

SelfKind == heap[call.self].kind
OtherKind == heap[call.other].kind

\* C1: add, sub, mul and div fault, and return no Value, on every ordered
\* pair of operand kinds outside the table: numeric pairs for all four,
\* String+String for add only, String*Integer (in that order) for mul only.
C1_UnsupportedPairsFault ==
    (AfterArith /\ ~InTable(call.op, SelfKind, OtherKind))
        => /\ status = "exited"
           /\ call.ret = NoRet
           /\ err # ""

C1_Witness ==
    /\ call.op = "mul" /\ SelfKind = "Integer" /\ OtherKind = "String"
    /\ status = "exited"

\* one call on two numeric operands that returns a Value
C2_Step ==
    (/\ call.op = "none" /\ call'.op \in ArithOps
     /\ Numeric(heap[call'.self].kind) /\ Numeric(heap[call'.other].kind)
     /\ call'.ret # NoRet)
        => LET k1 == heap[call'.self].kind
               k2 == heap[call'.other].kind
               r == heap'[call'.ret]
           IN  /\ call'.ret \notin DOMAIN heap
               /\ (r.kind = "Integer") <=> (k1 = "Integer" /\ k2 = "Integer")
               /\ (r.kind = "Float") <=> (k1 = "Float" \/ k2 = "Float")
               /\ heap'[call'.self] = heap[call'.self]
               /\ heap'[call'.other] = heap[call'.other]

\* C2: on two numeric operands the returned Value is an Integer exactly when
\* both operands are Integers and a Float when at least one is a Float, and
\* the call leaves both operands' kind and payload as they were.
C2_NumericResultKind == [][C2_Step]_vars

C2_Witness ==
    /\ call.op = "add" /\ SelfKind = "Integer" /\ OtherKind = "Float"
    /\ heap[call.self].as_int = 2 /\ heap[call.other].as_float = Float(3, 1)
    /\ call.ret # NoRet /\ heap[call.ret] = [kind |-> "Float", as_float |-> Float(5, 1)]

\* s concatenated with itself n times; the empty string for n <= 0
RECURSIVE Repeat(_, _)
Repeat(s, n) == IF n <= 0 THEN "" ELSE s \o Repeat(s, n - 1)

\* C6: mul of a String s by an Integer n returns the String holding n copies
\* of s for every n > 0 of the i64 range, and the empty String for n <= 0.
C6_Claim ==
    (call.op = "mul" /\ SelfKind = "String" /\ OtherKind = "Integer")
        => /\ status = "running"
           /\ call.ret # NoRet
           /\ heap[call.ret].kind = "String"
           /\ strs[heap[call.ret].as_string]
                 = Repeat(strs[heap[call.self].as_string], heap[call.other].as_int)

\* a = q*b + r with |r| < |b| and r zero or of the sign of a
IsTruncatedQuotient(q, a, b) ==
    LET r == a - q * b
    IN  /\ Abs(r) < Abs(b)
        /\ r = 0 \/ (r < 0) = (a < 0)

IntDivCall == call.op = "div" /\ SelfKind = "Integer" /\ OtherKind = "Integer"

\* C7 as claimed: div of Integer a by Integer b # 0 returns the Integer a/b
\* truncated toward zero, for every a and b; with b = 0 it returns no Value
\* and writes no diagnostic: a fatal fault.
C7_Claim ==
    IntDivCall
        => LET a == heap[call.self].as_int
               b == heap[call.other].as_int
           IN  IF b # 0
                   THEN /\ call.ret # NoRet
                        /\ heap[call.ret].kind = "Integer"
                        /\ IsTruncatedQuotient(heap[call.ret].as_int, a, b)
                   ELSE /\ call.ret = NoRet
                        /\ err = ""
                        /\ status = "trapped"

\* the quotient of a by b is an i64
Representable(a, b) == b # 0 /\ ~(a = I64Min /\ b = -1)

\* C7 as amended: the truncated quotient is returned whenever it is an i64,
\* that is for b # 0 and (a, b) # (INT64_MIN, -1); in the two other cases
\* the division is unchecked: no diagnostic is written and the process does
\* not leave through exit, and what is returned, if anything, is an Integer.
C7_TruncatedDivision ==
    IntDivCall
        => LET a == heap[call.self].as_int
               b == heap[call.other].as_int
           IN  IF Representable(a, b)
                   THEN /\ status = "running"
                        /\ call.ret # NoRet
                        /\ heap[call.ret].kind = "Integer"
                        /\ IsTruncatedQuotient(heap[call.ret].as_int, a, b)
                   ELSE /\ err = ""
                        /\ status \in {"running", "trapped"}
                        /\ exitCode = 0
                        /\ call.ret # NoRet => heap[call.ret].kind = "Integer"

C7_Witness ==
    /\ IntDivCall
    /\ heap[call.self].as_int = -7 /\ heap[call.other].as_int = 2
    /\ call.ret # NoRet /\ heap[call.ret].as_int = -3

OpSymbol(op) ==
    CASE op = "add" -> "+" [] op = "sub" -> "-" [] op = "mul" -> "*" [] op = "div" -> "/"

\* C9: the diagnostic of a faulting add, sub, mul or div is the one line
\* "<location>: Error: <message>" with the caller's location, its message
\* names the operation invoked (+, -, * or /), and the process exits with a
\* non-zero status.
C9_Claim ==
    (AfterArith /\ status = "exited")
        => LET head == call.loc \o ": Error: "
               tail == OpSymbol(call.op) \o "\n"
           IN  /\ Len(err) >= Len(head) + Len(tail)
               /\ SubSeq(err, 1, Len(head)) = head
               /\ SubSeq(err, Len(err) - Len(tail) + 1, Len(err)) = tail
               /\ exitCode # 0

---------------------------------------------------------------------------
(* The evaluator iterating and holding Values *)

IsIterator(v) == v \in DOMAIN heap /\ heap[v].kind = "Iterator"

\* what an iterator was made from, kept for the record
SourceOf(v) ==
    IF v.kind = "String" THEN [kind |-> "String", str |-> strs[v.as_string]]
    ELSE IF v.kind = "Range"
        THEN [kind |-> "Range", start |-> v.as_range.start, end |-> v.as_range.end]
    ELSE [kind |-> v.kind]

\* the payload of a Value that next() returned
PayloadOf(S, id) ==
    IF S.heap[id].kind = "String" THEN S.strs[S.heap[id].as_string]
    ELSE S.heap[id].as_int

\* self->iter(loc), at most maxIters times with success
IterUpTo(maxIters) ==
    /\ status = "running"
    /\ Cardinality(DOMAIN heap) < MaxLive
    /\ \E self \in DOMAIN heap, loc \in Locs :
         /\ heap[self].kind \in {"String", "Range"}
                => Cardinality(DOMAIN source) < maxIters
         /\ \E o \in iter(Store, self, loc) :
              /\ Finish(o, [op |-> "iter", self |-> self, loc |-> loc, ret |-> NoRet])
              /\ IF o.ret = NoRet
                    THEN UNCHANGED <<observed, yielded, source>>
                    ELSE /\ observed' = (o.ret :> "unknown") @@ observed
                         /\ yielded' = (o.ret :> <<>>) @@ yielded
                         /\ source' = (o.ret :> SourceOf(heap[self])) @@ source

\* the caller asks v->as_iter->has_next()
HasNext ==
    /\ status = "running"
    /\ \E v \in DOMAIN heap :
         /\ IsIterator(v)
         /\ observed' = [observed EXCEPT ![v] =
                            IF has_next(Store, heap[v].as_iter) THEN "true" ELSE "false"]
         /\ call' = [op |-> "has_next", self |-> v, ret |-> NoRet]
    /\ UNCHANGED <<heap, refs, strs, iters, frees, nextId, out, err, status,
                   exitCode, yielded, source>>

\* the caller, having last seen has_next() true, calls v->as_iter->next()
NextCall ==
    /\ status = "running"
    /\ Cardinality(DOMAIN heap) < MaxLive
    /\ \E v \in DOMAIN heap :
         /\ IsIterator(v)
         /\ observed[v] = "true"
         /\ \E o \in next(Store, heap[v].as_iter) :
              /\ Finish(o, [op |-> "next", self |-> v, ret |-> NoRet])
              /\ observed' = [observed EXCEPT ![v] = "unknown"]
              /\ yielded' = IF o.ret = NoRet THEN yielded
                            ELSE [yielded EXCEPT ![v] = Append(@, PayloadOf(o.store, o.ret))]
    /\ UNCHANGED source

StoreIs(S) ==
    /\ heap' = S.heap
    /\ refs' = S.refs
    /\ strs' = S.strs
    /\ iters' = S.iters
    /\ frees' = S.frees
    /\ nextId' = S.nextId

\* one more holder of a live Value
Acquire ==
    /\ status = "running"
    /\ \E v \in DOMAIN heap :
         /\ refs[v] < MaxHolders
         /\ StoreIs(Ref_copy(Store, v))
    /\ UNCHANGED <<out, err, status, exitCode, call, observed, yielded, source>>

\* a holder lets go of a Value; the global Ref Nothing is never let go
Release ==
    /\ status = "running"
    /\ \E v \in DOMAIN heap :
         /\ v = Nothing => refs[v] > 1
         /\ StoreIs(Ref_release(Store, v))
    /\ UNCHANGED <<out, err, status, exitCode, call, observed, yielded, source>>

IterInputs ==
    {[k |-> "string", s |-> s] : s \in StringsUpTo(MaxLen)}
    \cup {[k |-> "range", start |-> a, end |-> b] : a \in I64, b \in I64}
    \cup {[k |-> "int", i |-> 5], [k |-> "float", f |-> Float(3, 2)], [k |-> "builtin"]}

\* the Nothing singleton and one Value to iterate
InitIter ==
    \E d \in IterInputs : StartIn(Construct(GlobalConstructor.store, d).store)

\* one iterator is made and driven; the holders of the Values let go
Iter == IterUpTo(1)

NextIter == Iter \/ HasNext \/ NextCall \/ Release

SpecIter == InitIter /\ [][NextIter]_vars

LifeInputs ==
    {[k |-> "string", s |-> s] : s \in {"", "ab"}}
    \cup {[k |-> "range", start |-> 0, end |-> 2], [k |-> "range", start |-> 1, end |-> 1]}
    \cup {[k |-> "int", i |-> 5], [k |-> "float", f |-> Float(3, 2)], [k |-> "builtin"]}

\* the Nothing singleton and one Value
InitLife ==
    \E d \in LifeInputs : StartIn(Construct(GlobalConstructor.store, d).store)

\* two iterators may be made of the Value; holders come and go
IterAgain == IterUpTo(2)

NextLife == IterAgain \/ HasNext \/ NextCall \/ Acquire \/ Release

SpecLife == InitLife /\ [][NextLife]_vars

---------------------------------------------------------------------------
(* Properties of the iterator protocol, under SpecIter *)

RangeCount(r) == IF r.end > r.start THEN r.end - r.start ELSE 0

\* C3: the iterator of Range(start, end), driven by a caller that calls next
\* only after it saw has_next true, yields start, start+1, ..., end-1 in
\* order, each once, as Integers; has_next is true exactly while something
\* is left, so once false it stays false; with start >= end nothing is
\* yielded.
C3_RangeIteration ==
    \A v \in DOMAIN source :
        source[v].kind = "Range"
            => LET y == yielded[v]
                   n == RangeCount(source[v])
               IN  /\ Len(y) <= n
                   /\ \A k \in 1..Len(y) : y[k] = source[v].start + k - 1
                   /\ observed[v] = "true" => Len(y) < n
                   /\ observed[v] = "false" => Len(y) = n
                   /\ IsIterator(v)
                        => (has_next(Store, heap[v].as_iter) <=> Len(y) < n)
                   /\ (call.op = "next" /\ call.self = v)
                        => /\ status = "running"
                           /\ call.ret # NoRet
                           /\ call.ret \in DOMAIN heap
                                => heap[call.ret] = [kind |-> "Integer", as_int |-> y[Len(y)]]

C3_Witness ==
    \E v \in DOMAIN source :
        /\ source[v] = [kind |-> "Range", start |-> 0, end |-> 3]
        /\ yielded[v] = <<0, 1, 2>>
        /\ observed[v] = "false"

\* C4: the iterator of a String s, driven the same way, yields len(s)
\* Strings, the k-th holding the k-th character of s, and has_next is false
\* exactly when all were yielded; this holds whether or not the source Value
\* is still alive.
C4_Claim ==
    \A v \in DOMAIN source :
        source[v].kind = "String"
            => LET y == yielded[v]
                   s == source[v].str
               IN  /\ Len(y) <= Len(s)
                   /\ \A k \in 1..Len(y) : y[k] = SubSeq(s, k, k)
                   /\ observed[v] = "true" => Len(y) < Len(s)
                   /\ observed[v] = "false" => Len(y) = Len(s)

\* a call of iter has just returned or faulted
IterStep == call'.op = "iter" /\ call' # call

\* what one call of iter does, by the kind it is called on
C5_Step ==
    IterStep
        => LET k == heap[call'.self].kind
               head == call'.loc \o ": Error: "
           IN  IF k \in {"String", "Range"}
                   THEN /\ status' = "running"
                        /\ call'.ret \notin DOMAIN heap
                        /\ call'.ret \in DOMAIN heap'
                        /\ heap'[call'.ret].kind = "Iterator"
                        /\ err' = err
                   ELSE /\ status' = "exited"
                        /\ exitCode' # 0
                        /\ call'.ret = NoRet
                        /\ heap' = heap
                        /\ Len(err') > Len(head)
                        /\ SubSeq(err', 1, Len(head)) = head

\* C5: iter returns a new Iterator-kind Value when called on a String or a
\* Range; on every other kind, Iterator included, it returns no Value: it
\* writes a diagnostic that starts with the caller's location and exits.
C5_IterOnlyOnStringAndRange == [][C5_Step]_vars

C5_Witness ==
    /\ call.op = "iter"
    /\ status = "exited"
    /\ heap[call.self].kind = "Iterator"

---------------------------------------------------------------------------
(* Properties of ownership, under SpecLife *)

Owns(v, p) ==
    \/ heap[v].kind = "String" /\ heap[v].as_string = p
    \/ heap[v].kind = "Iterator" /\ heap[v].as_iter = p

\* every payload is deleted at most once and is alive exactly while its one
\* owning Value is
C10_Inv ==
    /\ \A p \in DOMAIN frees :
          /\ frees[p] <= 1
          /\ frees[p] = 0 <=> p \in DOMAIN strs \cup DOMAIN iters
    /\ \A v \in DOMAIN heap :
          /\ refs[v] >= 1
          /\ heap[v].kind = "String" => heap[v].as_string \in DOMAIN strs
          /\ heap[v].kind = "Iterator" => heap[v].as_iter \in DOMAIN iters
    /\ \A p \in DOMAIN strs \cup DOMAIN iters :
          Cardinality({v \in DOMAIN heap : Owns(v, p)}) = 1

\* a payload is deleted in a step exactly when that step destroys its owner,
\* which had one holder left
C10_Step ==
    LET destroyed == DOMAIN heap \ DOMAIN heap'
    IN  /\ \A v \in destroyed : refs[v] = 1
        /\ \A v \in DOMAIN heap \cap DOMAIN heap' : refs[v] = 1 => refs'[v] >= 1
        /\ \A p \in DOMAIN frees :
              frees'[p] = frees[p] + (IF \E v \in destroyed : Owns(v, p) THEN 1 ELSE 0)

\* C10: the string buffer of a String Value and the iterator object of an
\* Iterator Value are deleted exactly once, in the step in which the last
\* holder lets go of the Value and never while a holder is left; every
\* iterator object has exactly one owning Value; destroying a Value of
\* another kind deletes nothing.
C10_PayloadLifecycle == []C10_Inv /\ [][C10_Step]_vars

C10_Witness ==
    /\ Cardinality(DOMAIN source) = 2
    /\ \E p \in DOMAIN frees : frees[p] = 1 /\ p \notin DOMAIN strs
    /\ \E v \in DOMAIN heap : heap[v].kind = "Iterator" /\ refs[v] = 2
    /\ \E v \in DOMAIN source : v \notin DOMAIN heap /\ Len(yielded[v]) = 1

---------------------------------------------------------------------------
(* The evaluator calling print *)

RECURSIVE SeqsUpTo(_, _)
SeqsUpTo(S, n) ==
    IF n = 0 THEN {<<>>}
    ELSE LET shorter == SeqsUpTo(S, n - 1)
         IN  shorter \cup {Append(q, x) : q \in shorter, x \in S}

\* print(args, loc), twice at most in a run
CallPrint ==
    /\ status = "running"
    /\ call.op = "none" \/ (call.op = "print" /\ call.nth = 1)
    /\ \E args \in SeqsUpTo(DOMAIN heap, MaxArgs), loc \in Locs :
         \E o \in print(Store, args, loc) :
            Finish(o, [op |-> "print", args |-> args, loc |-> loc, ret |-> NoRet,
                       nth |-> IF call.op = "none" THEN 1 ELSE 2])
    /\ UNCHANGED <<observed, yielded, source>>

PrintInputs ==
    {[k |-> "int", i |-> i] : i \in {I64Min, -1, 0, 5, I64Max}}
    \cup {[k |-> "float", f |-> f] :
              f \in {Float(-3, 2), Float(0, 1), Float(1, 3), Float(5, 1), Float(1, 4)}}
    \cup {[k |-> "string", s |-> s] : s \in StringsUpTo(ArithStrLen)}
    \cup {[k |-> "range", start |-> 0, end |-> 3],
          [k |-> "range", start |-> I64Min, end |-> I64Max],
          [k |-> "iterator", start |-> 0, end |-> 2],
          [k |-> "builtin"]}

\* the Nothing singleton and two Values to print
InitPrint ==
    \E d1 \in PrintInputs, d2 \in PrintInputs :
        StartIn(Construct(Construct(GlobalConstructor.store, d1).store, d2).store)

NextPrint == CallPrint

SpecPrint == InitPrint /\ [][NextPrint]_vars

---------------------------------------------------------------------------
(* Properties of print, under SpecPrint *)

\* the line of a call: every argument's rendering followed by one space,
\* and one newline at the end
RECURSIVE Line(_)
Line(args) ==
    IF args = <<>> THEN "\n"
    ELSE Rendering(Store, Head(args)) \o " " \o Line(Tail(args))

PrintStep == call'.op = "print" /\ call' # call

\* what one call of print does
C8_Step ==
    PrintStep
        => /\ out' = out \o Line(call'.args)
           /\ err' = err
           /\ status' = "running"
           /\ call'.ret = Nothing
           /\ heap'[call'.ret].kind = "Nothing"
           /\ heap' = heap
           /\ nextId' = nextId

\* C8: print writes to standard output each argument's rendering, in order,
\* each followed by exactly one space, then exactly one newline (only the
\* newline for no arguments), writes nothing to the error stream, and
\* returns the Nothing singleton itself: no Value is made by the call.
C8_PrintLine == [][C8_Step]_vars

C8_Witness ==
    /\ call.op = "print"
    /\ call.nth = 2
    /\ Len(call.args) = 2
    /\ heap[call.args[1]].kind = "Nothing"
    /\ heap[call.args[2]] = [kind |-> "Integer", as_int |-> 5]
    /\ out = "\n" \o "nothing 5 " \o "\n"
    /\ call.ret = Nothing

=============================================================================
